---- MODULE Spec2Model ----
(***************************************************************************)
(* indeksddb: the schema DSL parser (createParser: parse / synchronize)   *)
(* and the generation of the client's get-argument types.                 *)
(*                                                                         *)
(* Spec     the recursive-descent parser as a stack machine, one action   *)
(*          per parser function, driven by a caller that calls parse()    *)
(*          and synchronize() on one parser object.                       *)
(* SpecGen  the renderer functions getItemNameForTable and                *)
(*          createGetArgsType applied to one table definition.            *)
(***************************************************************************)
EXTENDS Integers, Sequences, FiniteSets, TLC

VARIABLES
  tokens,        \* createParser(tokens): the token array, never written
  currentIndex,  \* let currentIndex = 0 (0-based cursor into tokens)
  stack,         \* call stack of the parser functions being executed
  ret,           \* value returned by the function that returned last
  status,        \* "idle" | "running" | "returned" | "threw" of the last parse()
  error,         \* the ParseError thrown by the last parse(), if any
  result,        \* the DatabaseSchema returned by the last parse(), if any
  calls,         \* number of parse() calls made by the caller
  prevThrow,     \* cursor at which the previous parse() threw (-1: none), if
                 \* synchronize() was called since
  synced,        \* synchronize() has been called since the last parse() ended
  src,           \* the schema the token stream was written from (history)
  mutated,       \* the token stream is src with one token replaced (history)
  def,           \* SpecGen: the TableDefinition handed to the renderer
  itemName,      \* SpecGen: outcome of getItemNameForTable(def)
  getArgs,       \* SpecGen: outcome of createGetArgsType(def)
  getCall,       \* SpecGen: outcome of a call of the generated get(arg)
  database,      \* SpecGen: the DatabaseDefinition handed to the renderer
  clientType,    \* SpecGen: outcome of createClientTypeDeclaration(database)
  self,          \* SpecTwo: the parser object whose call is running or ran last
  closures       \* SpecTwo: per parser object, the state of its closure and
                 \* the outcome of its last call, as of its last call

parserVars == <<tokens, currentIndex, stack, ret, status, error, result, calls,
                prevThrow, synced, src, mutated, self, closures>>
genVars == <<def, itemName, getArgs, getCall, database, clientType>>
objectVars == <<self, closures>>
vars == <<tokens, currentIndex, stack, ret, status, error, result, calls,
          prevThrow, synced, src, mutated, def, itemName, getArgs, getCall,
          database, clientType, self, closures>>

(***************************************************************************)
(* Bounds                                                                  *)
(***************************************************************************)
MaxLen == 18       \* longest token stream (EOF included) written from a schema
MaxMutLen == 14    \* longest token stream in which one token is replaced
MaxDefs == 2       \* top-level definitions per schema
MaxTables == 2     \* tables per database
MaxFields == 2     \* fields per table
MaxAnns == 1       \* annotations per database, table or field
MaxArgs == 2       \* arguments per annotation
MaxAlts == 2       \* alternatives per type definition
MaxCalls == 2      \* parse() calls made by the caller
MaxItemAnns == 2   \* @item annotations per table handed to the renderer
MaxItemArgs == 2   \* arguments per @item annotation handed to the renderer
MaxGenFields == 3  \* fields per table handed to the renderer
MaxArgProps == 2   \* properties of an object handed to the generated get
MaxGenTables == 2  \* tables per database handed to the renderer
MaxTwoLen == 9     \* longest token stream handed to two parsers
MaxCallsEach == 2  \* calls made on each of two parsers

(***************************************************************************)
(* Tokens (SyntaxKind of ./types, as used by the parser)                   *)
(***************************************************************************)
Kinds == {"DatabaseKeyword", "TableKeyword", "TypeKeyword", "Identifier",
          "LeftBraceToken", "RightBraceToken", "EqualToken", "SemicolonToken",
          "AtToken", "CommaToken", "LeftParenToken", "RightParenToken",
          "StringLiteral", "ColonToken", "PipeToken", "LessThanToken",
          "GreaterThanToken", "BooleanKeyword", "StringKeyword",
          "NumberKeyword", "IntegerLiteral", "FloatLiteral", "TrueKeyword",
          "FalseKeyword", "EOF"}

\* the source text of a token of kind k written without a chosen text
Lexeme(k) ==
  CASE k = "DatabaseKeyword" -> "database" [] k = "TableKeyword" -> "table"
    [] k = "TypeKeyword" -> "type"         [] k = "Identifier" -> "x"
    [] k = "LeftBraceToken" -> "{"         [] k = "RightBraceToken" -> "}"
    [] k = "EqualToken" -> "="             [] k = "SemicolonToken" -> ";"
    [] k = "AtToken" -> "@"                [] k = "CommaToken" -> ","
    [] k = "LeftParenToken" -> "("         [] k = "RightParenToken" -> ")"
    [] k = "StringLiteral" -> "s"          [] k = "ColonToken" -> ":"
    [] k = "PipeToken" -> "|"              [] k = "LessThanToken" -> "<"
    [] k = "GreaterThanToken" -> ">"       [] k = "BooleanKeyword" -> "boolean"
    [] k = "StringKeyword" -> "string"     [] k = "NumberKeyword" -> "number"
    [] k = "IntegerLiteral" -> "1"         [] k = "FloatLiteral" -> "1.5"
    [] k = "TrueKeyword" -> "true"         [] k = "FalseKeyword" -> "false"
    [] OTHER -> ""

Tok(k, t) == [kind |-> k, text |-> t]
T(k) == Tok(k, Lexeme(k))

\* Token {kind, text, loc}: the i-th token of a stream is located at [i-1, i]
Locate(ts) ==
  [i \in 1..Len(ts) |->
     [kind |-> ts[i].kind, text |-> ts[i].text,
      loc |-> [start |-> i - 1, end |-> i]]]

(***************************************************************************)
(* Input: schemas of the grammar                                           *)
(*   Schema             -> (DatabaseDefinition | TypeDefinition)*          *)
(*   DatabaseDefinition -> 'database' Identifier Annotation*               *)
(*                         '{' TableDefinition* '}'                        *)
(*   TableDefinition    -> 'table' Identifier Annotation*                  *)
(*                         '{' FieldDefinition* '}'                        *)
(*   TypeDefinition     -> 'type' Identifier '=' TypeNode ('|' TypeNode)* ';' *)
(*   FieldDefinition    -> Annotation* Identifier ':' TypeNode             *)
(*                         ('=' literal)? ';'                              *)
(*   Annotation         -> '@' Identifier ('(' String (',' String)* ')')?  *)
(*   TypeNode           -> Identifier ('<' TypeNode (',' TypeNode)* '>')?  *)
(*                         | keyword | literal                             *)
(* each paired with the token stream it is written as.                     *)
(***************************************************************************)
Written(ast, toks) == [ast |-> ast, toks |-> toks]

DefNames == <<"A", "B", "C", "D">>
TableNames == <<"t1", "t2", "t3", "t4">>
FieldNames == <<"f1", "f2", "f3", "f4">>
ArgTexts == <<"P", "Q", "R", "S">>

SrcTypeNodes ==
  { Written([kind |-> "StringKeyword"], <<T("StringKeyword")>>),
    Written([kind |-> "TypeReference", name |-> "Author", typeArguments |-> <<>>],
            <<Tok("Identifier", "Author")>>),
    Written([kind |-> "TypeReference", name |-> "Array",
             typeArguments |-> <<[kind |-> "NumberKeyword"]>>],
            <<Tok("Identifier", "Array"), T("LessThanToken"),
              T("NumberKeyword"), T("GreaterThanToken")>>) }

RECURSIVE SrcArgTokens(_)
SrcArgTokens(n) ==
  IF n = 0 THEN <<>>
  ELSE IF n = 1 THEN <<Tok("StringLiteral", ArgTexts[1])>>
  ELSE SrcArgTokens(n - 1) \o <<T("CommaToken"), Tok("StringLiteral", ArgTexts[n])>>

SrcAnnotations ==
  { Written([name |-> "item", arguments |-> SubSeq(ArgTexts, 1, n)],
            <<T("AtToken"), Tok("Identifier", "item")>> \o
            (IF n = 0 THEN <<>>
             ELSE <<T("LeftParenToken")>> \o SrcArgTokens(n) \o <<T("RightParenToken")>>))
    : n \in 0..MaxArgs }

Fits(toks) == Len(toks) + 1 <= MaxLen

\* the lists of at most n elements: the lists of n-1, and those extended by
\* an n-th element Elem(n), as long as the stream stays within MaxLen
RECURSIVE SrcAnnotationLists(_)
SrcAnnotationLists(n) ==
  IF n = 0 THEN {Written(<<>>, <<>>)}
  ELSE LET prev == SrcAnnotationLists(n - 1) IN
       prev \cup
       { w \in { Written(Append(l.ast, a.ast), l.toks \o a.toks)
                 : l \in {q \in prev : Len(q.ast) = n - 1}, a \in SrcAnnotations }
         : Fits(w.toks) }

SrcFields(j) ==
  { Written([name |-> FieldNames[j], annotations |-> al.ast, type |-> ty.ast],
            al.toks \o <<Tok("Identifier", FieldNames[j]), T("ColonToken")>>
            \o ty.toks \o <<T("SemicolonToken")>>)
    : al \in SrcAnnotationLists(MaxAnns), ty \in SrcTypeNodes }
  \cup
  \* the field with a default value of the README: f: string = "";
  { Written([name |-> FieldNames[j], annotations |-> <<>>,
             type |-> [kind |-> "StringKeyword"],
             default |-> [kind |-> "StringLiteral", value |-> ""]],
            <<Tok("Identifier", FieldNames[j]), T("ColonToken"), T("StringKeyword"),
              T("EqualToken"), Tok("StringLiteral", ""), T("SemicolonToken")>>) }

RECURSIVE SrcFieldLists(_)
SrcFieldLists(n) ==
  IF n = 0 THEN {Written(<<>>, <<>>)}
  ELSE LET prev == SrcFieldLists(n - 1) IN
       prev \cup
       { w \in { Written(Append(l.ast, f.ast), l.toks \o f.toks)
                 : l \in {q \in prev : Len(q.ast) = n - 1}, f \in SrcFields(n) }
         : Fits(w.toks) }

SrcTables(j) ==
  { w \in { Written([name |-> TableNames[j], annotations |-> al.ast, fields |-> fl.ast],
                    <<T("TableKeyword"), Tok("Identifier", TableNames[j])>> \o al.toks
                    \o <<T("LeftBraceToken")>> \o fl.toks \o <<T("RightBraceToken")>>)
            : al \in SrcAnnotationLists(MaxAnns), fl \in SrcFieldLists(MaxFields) }
    : Fits(w.toks) }

RECURSIVE SrcTableLists(_)
SrcTableLists(n) ==
  IF n = 0 THEN {Written(<<>>, <<>>)}
  ELSE LET prev == SrcTableLists(n - 1) IN
       prev \cup
       { w \in { Written(Append(l.ast, t.ast), l.toks \o t.toks)
                 : l \in {q \in prev : Len(q.ast) = n - 1}, t \in SrcTables(n) }
         : Fits(w.toks) }

SrcDatabases(j) ==
  { w \in { Written([kind |-> "DatabaseDefinition", name |-> DefNames[j],
                     annotations |-> al.ast, tables |-> tl.ast],
                    <<T("DatabaseKeyword"), Tok("Identifier", DefNames[j])>> \o al.toks
                    \o <<T("LeftBraceToken")>> \o tl.toks \o <<T("RightBraceToken")>>)
            : al \in SrcAnnotationLists(MaxAnns), tl \in SrcTableLists(MaxTables) }
    : Fits(w.toks) }

RECURSIVE SrcAlternatives(_)
SrcAlternatives(n) ==
  IF n = 1 THEN { Written(<<ty.ast>>, ty.toks) : ty \in SrcTypeNodes }
  ELSE LET prev == SrcAlternatives(n - 1) IN
       prev \cup
       { w \in { Written(Append(l.ast, ty.ast), l.toks \o <<T("PipeToken")>> \o ty.toks)
                 : l \in {q \in prev : Len(q.ast) = n - 1}, ty \in SrcTypeNodes }
         : Fits(w.toks) }

SrcTypeDefinitions(j) ==
  { w \in { Written([kind |-> "TypeDefinition", name |-> DefNames[j],
                     alternatives |-> al.ast],
                    <<T("TypeKeyword"), Tok("Identifier", DefNames[j]), T("EqualToken")>>
                    \o al.toks \o <<T("SemicolonToken")>>)
            : al \in SrcAlternatives(MaxAlts) }
    : Fits(w.toks) }

RECURSIVE SrcDefinitionLists(_)
SrcDefinitionLists(n) ==
  IF n = 0 THEN {Written(<<>>, <<>>)}
  ELSE LET prev == SrcDefinitionLists(n - 1) IN
       prev \cup
       { w \in { Written(Append(l.ast, d.ast), l.toks \o d.toks)
                 : l \in {q \in prev : Len(q.ast) = n - 1},
                   d \in SrcDatabases(n) \cup SrcTypeDefinitions(n) }
         : Fits(w.toks) }

\* every schema within the bounds, with its token stream (EOF not yet added)
Schemas == SrcDefinitionLists(MaxDefs)

\* the token stream of w as the lexer hands it over: terminated by one EOF
Stream(w) == Locate(w.toks \o <<T("EOF")>>)

\* the stream of w with token i replaced by one of kind k; a replacement by
\* EOF ends the stream there, so that it keeps a single EOF, at its end
Replaced(w, i, k) ==
  IF k = "EOF" THEN Locate(SubSeq(w.toks, 1, i - 1) \o <<T("EOF")>>)
  ELSE Locate([w.toks EXCEPT ![i] = T(k)] \o <<T("EOF")>>)

(***************************************************************************)
(* AST nodes (../factory, DatabaseSchema and its parts)                    *)
(***************************************************************************)
NoToken == [kind |-> "None", text |-> "", loc |-> [start |-> -1, end |-> -1]]
NoValue == [kind |-> "None"]
\* the return register: a node (NoValue for null) or a list of nodes
NoReturn == [node |-> NoValue, list |-> <<>>]
NoError == [message |-> "", detail |-> "", loc |-> [start |-> -1, end |-> -1]]

createTextLocation(start, end) == [start |-> start, end |-> end]
createIdentifier(text, loc) == [kind |-> "Identifier", value |-> text, loc |-> loc]
createStringLiteral(text, loc) == [kind |-> "StringLiteral", value |-> text, loc |-> loc]
createIntegerLiteral(text, loc) == [kind |-> "IntegerLiteral", value |-> text, loc |-> loc]
createFloatLiteral(text, loc) == [kind |-> "FloatLiteral", value |-> text, loc |-> loc]
createBooleanLiteral(b, loc) == [kind |-> "BooleanLiteral", value |-> b, loc |-> loc]
createKeywordFieldType(kind, loc) == [kind |-> kind, loc |-> loc]
createTypeReferenceNode(name, typeArgs, loc) ==
  [kind |-> "TypeReferenceNode", name |-> name, typeArguments |-> typeArgs, loc |-> loc]
createAnnotation(name, args, loc) ==
  [kind |-> "Annotation", name |-> name, arguments |-> args, loc |-> loc]
createFieldDefinition(name, annotations, type, loc) ==
  [kind |-> "FieldDefinition", name |-> name, annotations |-> annotations,
   type |-> type, loc |-> loc]
createTableDefinition(name, fields, annotations, loc) ==
  [kind |-> "TableDefinition", name |-> name, body |-> fields,
   annotations |-> annotations, loc |-> loc]
createDatabaseDefinition(name, tables, loc) ==
  [kind |-> "DatabaseDefinition", name |-> name, body |-> tables, loc |-> loc]
createTypeDefinition(name, body, loc) ==
  [kind |-> "TypeDefinition", name |-> name, body |-> body, loc |-> loc]
createDatabaseSchema(body) == [kind |-> "DatabaseSchema", body |-> body]

(***************************************************************************)
(* The cursor primitives of createParser.  The cursor a function works on  *)
(* is passed as i; the action stores the last one in currentIndex.         *)
(***************************************************************************)
\* isStartOfDefinition without the case of 'table', which starts no top-level
\* definition
isStartOfTopLevelDefinition(token) ==
  token.kind \in {"DatabaseKeyword", "TypeKeyword"}

isStartOfDefinition(token) ==
  token.kind \in {"DatabaseKeyword", "TableKeyword", "TypeKeyword"}

currentToken(i) == tokens[i + 1]        \* tokens[currentIndex], 0-based
previousToken(i) == tokens[i]           \* tokens[currentIndex - 1]

check(i, type) == type = currentToken(i).kind

\* isAtEnd() without the test for the EOF token
isAtEndOfArray(i) == i >= Len(tokens)

isAtEnd(i) == i >= Len(tokens) \/ currentToken(i).kind = "EOF"

\* advance(): the cursor after the call; the token returned is previousToken
advance(i) == IF ~isAtEnd(i) THEN i + 1 ELSE i

\* consume(type): the token consumed and the cursor after the call, or null
\* (ok = FALSE) with the cursor where it was
consume(i, type) ==
  IF check(i, type)
  THEN [ok |-> TRUE, token |-> previousToken(advance(i)), idx |-> advance(i)]
  ELSE [ok |-> FALSE, token |-> NoToken, idx |-> i]

\* readListSeparator(): the cursor after the call
readListSeparator(i) == IF check(i, "CommaToken") THEN advance(i) ELSE i

\* reportError taking the location of the token before the cursor
reportErrorAtPrevious(i, msg, detail) ==
  [message |-> msg, detail |-> detail,
   loc |-> IF i > 0 THEN previousToken(i).loc ELSE currentToken(i).loc]

\* reportError(msg): new ParseError(msg, currentToken().loc)
reportError(i, msg, detail) ==
  [message |-> msg, detail |-> detail, loc |-> currentToken(i).loc]

Expect(type, msg) == [type |-> type, msg |-> msg]

\* requireValue(consume(type), msg) for each expectation in turn: the tokens
\* consumed and the cursor after them, or the cursor and the message of the
\* first requireValue that throws
RECURSIVE requireValues(_, _, _)
requireValues(i, expects, got) ==
  IF expects = <<>> THEN [ok |-> TRUE, idx |-> i, tokens |-> got, msg |-> ""]
  ELSE LET c == consume(i, Head(expects).type) IN
       IF c.ok THEN requireValues(c.idx, Tail(expects), Append(got, c.token))
       ELSE [ok |-> FALSE, idx |-> c.idx, tokens |-> got, msg |-> Head(expects).msg]

\* synchronize(): the cursor after the loop
RECURSIVE synchronizeFrom(_)
synchronizeFrom(i) ==
  IF ~isAtEnd(i) /\ ~isStartOfDefinition(currentToken(i))
  THEN synchronizeFrom(advance(i))
  ELSE i

(***************************************************************************)
(* The call stack: a frame per active parser function                      *)
(***************************************************************************)
Frame(fn) ==
  [fn |-> fn, pc |-> "start", keywordToken |-> NoToken, nameToken |-> NoToken,
   annotations |-> <<>>, items |-> <<>>]

Top == stack[Len(stack)]
Running(fn) == status = "running" /\ stack # <<>> /\ Top.fn = fn

callerVars == <<tokens, calls, prevThrow, synced, src, mutated>>

\* the function in the top frame calls callee, at cursor i
Calls(i, top, callee) ==
  /\ currentIndex' = i
  /\ stack' = Append([stack EXCEPT ![Len(stack)] = top], callee)
  /\ ret' = NoReturn
  /\ UNCHANGED <<status, error, result>>

\* the function in the top frame returns callee's result: a tail call
TailCalls(i, callee) ==
  /\ currentIndex' = i
  /\ stack' = [stack EXCEPT ![Len(stack)] = callee]
  /\ ret' = NoReturn
  /\ UNCHANGED <<status, error, result>>

\* the function in the top frame goes round its loop, at cursor i
Loops(i, top) ==
  /\ currentIndex' = i
  /\ stack' = [stack EXCEPT ![Len(stack)] = top]
  /\ ret' = NoReturn
  /\ UNCHANGED <<status, error, result>>

\* the function in the top frame returns the node value, at cursor i
Returns(i, value) ==
  /\ currentIndex' = i
  /\ stack' = SubSeq(stack, 1, Len(stack) - 1)
  /\ ret' = [node |-> value, list |-> <<>>]
  /\ UNCHANGED <<status, error, result>>

\* the function in the top frame returns the list values, at cursor i
ReturnsList(i, values) ==
  /\ currentIndex' = i
  /\ stack' = SubSeq(stack, 1, Len(stack) - 1)
  /\ ret' = [node |-> NoValue, list |-> values]
  /\ UNCHANGED <<status, error, result>>

\* throw reportError(msg) at cursor i: no function of the parser catches it,
\* parse() ends with the ParseError
Throws(i, msg, detail) ==
  /\ currentIndex' = i
  /\ stack' = <<>>
  /\ ret' = NoReturn
  /\ status' = "threw"
  /\ error' = reportError(i, msg, detail)
  /\ UNCHANGED result

(***************************************************************************)
(* The parser functions, one action each.  An action runs the function in  *)
(* the top frame from where it stands (pc) up to its next call, return or  *)
(* throw, or once round a loop that calls nothing.                         *)
(***************************************************************************)

\* parse(): while (!isAtEnd()) body.push(parseDefinition())
parse ==
  /\ Running("parse")
  /\ LET body == IF Top.pc = "def" /\ ret.node # NoValue
                 THEN Append(Top.items, ret.node) ELSE Top.items
     IN IF ~isAtEnd(currentIndex)
        THEN Calls(currentIndex, [Top EXCEPT !.pc = "def", !.items = body],
                   Frame("parseDefinition"))
        ELSE /\ status' = "returned"
             /\ result' = createDatabaseSchema(body)
             /\ stack' = <<>>
             /\ ret' = NoReturn
             /\ UNCHANGED <<currentIndex, error>>
  /\ UNCHANGED callerVars /\ UNCHANGED genVars /\ UNCHANGED objectVars

parseDefinition ==
  /\ Running("parseDefinition")
  /\ LET next == currentToken(currentIndex) IN
     IF next.kind = "DatabaseKeyword"
     THEN TailCalls(currentIndex, Frame("parseDatabaseDefinition"))
     ELSE IF next.kind = "TypeKeyword"
     THEN TailCalls(currentIndex, Frame("parseTypeDefinition"))
     ELSE Throws(currentIndex, "Invalid start to Database definition ", next.text)
  /\ UNCHANGED callerVars /\ UNCHANGED genVars /\ UNCHANGED objectVars

\* DatabaseDefinition -> 'database' Identifier '{' TableDefinition* '}'
parseDatabaseDefinition ==
  /\ Running("parseDatabaseDefinition")
  /\ IF Top.pc = "start"
     THEN LET r == requireValues(currentIndex,
                     << Expect("DatabaseKeyword", "Unable to find database keyword for database"),
                        Expect("Identifier", "Unable to find identifier for database"),
                        Expect("LeftBraceToken", "Expected opening curly brace") >>, <<>>)
          IN IF ~r.ok THEN Throws(r.idx, r.msg, "")
             ELSE Calls(r.idx,
                        [Top EXCEPT !.pc = "tables", !.keywordToken = r.tokens[1],
                                    !.nameToken = r.tokens[2]],
                        Frame("parseTableDefinitions"))
     ELSE LET r == requireValues(currentIndex,
                     << Expect("RightBraceToken", "Expected closing curly brace") >>, <<>>)
          IN IF ~r.ok THEN Throws(r.idx, r.msg, "")
             ELSE Returns(r.idx,
                    createDatabaseDefinition(
                      createIdentifier(Top.nameToken.text, Top.nameToken.loc),
                      ret.list,
                      createTextLocation(Top.keywordToken.loc.start, r.tokens[1].loc.end)))
  /\ UNCHANGED callerVars /\ UNCHANGED genVars /\ UNCHANGED objectVars

\* the checks after tables.push(parseTableDefinition()): the message of the
\* error thrown, "" when none is
tablesRunaway(i) ==
  IF check(i, "DatabaseKeyword")
  THEN "Closing curly brace expected, but new database found"
  ELSE IF check(i, "EOF")
  THEN "Closing curly brace expected but reached end of file"
  ELSE ""

parseTableDefinitions ==
  /\ Running("parseTableDefinitions")
  /\ LET tables == IF Top.pc = "item" THEN Append(Top.items, ret.node) ELSE Top.items
         runaway == IF Top.pc = "item" THEN tablesRunaway(currentIndex) ELSE ""
     IN IF runaway # "" THEN Throws(currentIndex, runaway, "")
        ELSE IF ~check(currentIndex, "RightBraceToken")
        THEN Calls(currentIndex, [Top EXCEPT !.pc = "item", !.items = tables],
                   Frame("parseTableDefinition"))
        ELSE ReturnsList(currentIndex, tables)
  /\ UNCHANGED callerVars /\ UNCHANGED genVars /\ UNCHANGED objectVars

parseTableDefinition ==
  /\ Running("parseTableDefinition")
  /\ IF Top.pc = "start"
     THEN LET r == requireValues(currentIndex,
                     << Expect("TableKeyword", "Unable to find table keyword for table"),
                        Expect("Identifier", "Unable to find identifier for table") >>, <<>>)
          IN IF ~r.ok THEN Throws(r.idx, r.msg, "")
             ELSE Calls(r.idx,
                        [Top EXCEPT !.pc = "annotations", !.keywordToken = r.tokens[1],
                                    !.nameToken = r.tokens[2]],
                        Frame("parseAnnotations"))
     ELSE IF Top.pc = "annotations"
     THEN LET r == requireValues(currentIndex,
                     << Expect("LeftBraceToken", "Expected opening curly brace") >>, <<>>)
          IN IF ~r.ok THEN Throws(r.idx, r.msg, "")
             ELSE Calls(r.idx, [Top EXCEPT !.pc = "fields", !.annotations = ret.list],
                        Frame("parseFields"))
     ELSE LET r == requireValues(currentIndex,
                     << Expect("RightBraceToken", "Expected closing curly brace") >>, <<>>)
          IN IF ~r.ok THEN Throws(r.idx, r.msg, "")
             ELSE Returns(r.idx,
                    createTableDefinition(
                      createIdentifier(Top.nameToken.text, Top.nameToken.loc),
                      ret.list,
                      Top.annotations,
                      createTextLocation(Top.keywordToken.loc.start, r.tokens[1].loc.end)))
  /\ UNCHANGED callerVars /\ UNCHANGED genVars /\ UNCHANGED objectVars

\* TypeDefinition -> 'type ' Identifier '=' TypeNode ('|' TypeNode)* ';'
parseTypeDefinition ==
  /\ Running("parseTypeDefinition")
  /\ IF Top.pc = "start"
     THEN LET r == requireValues(currentIndex,
                     << Expect("TypeKeyword", "Unable to find type keyword for type"),
                        Expect("Identifier", "Unable to find identifier for type"),
                        Expect("EqualToken", "Expected '='") >>, <<>>)
          IN IF ~r.ok THEN Throws(r.idx, r.msg, "")
             ELSE Calls(r.idx,
                        [Top EXCEPT !.pc = "body", !.keywordToken = r.tokens[1],
                                    !.nameToken = r.tokens[2]],
                        Frame("parseTypeNodes"))
     ELSE LET r == requireValues(currentIndex,
                     << Expect("SemicolonToken", "Field definition should end with semicolon") >>,
                     <<>>)
          IN IF ~r.ok THEN Throws(r.idx, r.msg, "")
             ELSE Returns(r.idx,
                    createTypeDefinition(
                      createIdentifier(Top.nameToken.text, Top.nameToken.loc),
                      ret.list,
                      createTextLocation(Top.keywordToken.loc.start, r.tokens[1].loc.end)))
  /\ UNCHANGED callerVars /\ UNCHANGED genVars /\ UNCHANGED objectVars

parseAnnotations ==
  /\ Running("parseAnnotations")
  /\ LET annotations == IF Top.pc = "item" /\ ret.node # NoValue
                        THEN Append(Top.items, ret.node) ELSE Top.items
     IN IF check(currentIndex, "AtToken")
        THEN Calls(currentIndex, [Top EXCEPT !.pc = "item", !.items = annotations],
                   Frame("parseAnnotation"))
        ELSE ReturnsList(currentIndex, annotations)
  /\ UNCHANGED callerVars /\ UNCHANGED genVars /\ UNCHANGED objectVars

\* Annotation -> '@' Identifier
parseAnnotation ==
  /\ Running("parseAnnotation")
  /\ IF Top.pc = "start"
     THEN LET r == requireValues(currentIndex,
                     << Expect("AtToken", "Unable to find identifier for field"),
                        Expect("Identifier", "Annotation must have a name") >>, <<>>)
          IN IF ~r.ok THEN Throws(r.idx, r.msg, "")
             ELSE Calls(r.idx,
                        [Top EXCEPT !.pc = "args", !.keywordToken = r.tokens[1],
                                    !.nameToken = r.tokens[2]],
                        Frame("parseAnnotationArgs"))
     ELSE Returns(currentIndex,
            createAnnotation(
              createIdentifier(Top.nameToken.text, Top.nameToken.loc),
              ret.list,
              createTextLocation(Top.keywordToken.loc.start, Top.nameToken.loc.end)))
  /\ UNCHANGED callerVars /\ UNCHANGED genVars /\ UNCHANGED objectVars

\* the checks at the end of the body of the argument loop without the one
\* for the end of file
annotationArgsRunawayNoEOF(i) ==
  IF isStartOfDefinition(currentToken(i))
  THEN "Closing paren ')' expected, but new definition found"
  ELSE ""

\* the checks at the end of the body of the argument loop: the message of
\* the error thrown, "" when none is
annotationArgsRunaway(i) ==
  IF isStartOfDefinition(currentToken(i))
  THEN "Closing paren ')' expected, but new definition found"
  ELSE IF check(i, "EOF")
  THEN "Closing paren ')' expected but reached end of file"
  ELSE ""

\* one round of while (!check('RightParenToken')) { ... } from cursor i with
\* the arguments args: the cursor and the arguments after it
annotationArgsRound(i, args) ==
  LET sep == readListSeparator(i)
      arg == consume(sep, "StringLiteral")
  IN [idx |-> arg.idx,
      args |-> IF arg.ok
               THEN Append(args, createStringLiteral(arg.token.text, arg.token.loc))
               ELSE args]

parseAnnotationArgs ==
  /\ Running("parseAnnotationArgs")
  /\ IF Top.pc = "start"
     THEN LET openParen == consume(currentIndex, "LeftParenToken") IN
          IF ~openParen.ok THEN ReturnsList(openParen.idx, <<>>)
          ELSE Loops(openParen.idx, [Top EXCEPT !.pc = "loop"])
     ELSE IF ~check(currentIndex, "RightParenToken")
     THEN LET round == annotationArgsRound(currentIndex, Top.items)
              runaway == annotationArgsRunaway(round.idx)
          IN IF runaway # "" THEN Throws(round.idx, runaway, "")
             ELSE Loops(round.idx, [Top EXCEPT !.items = round.args])
     ELSE ReturnsList(consume(currentIndex, "RightParenToken").idx, Top.items)
  /\ UNCHANGED callerVars /\ UNCHANGED genVars /\ UNCHANGED objectVars

\* the checks after fields.push(parseField())
fieldsRunaway(i) ==
  IF isStartOfDefinition(currentToken(i))
  THEN "Closing curly brace expected, but new statement found"
  ELSE IF check(i, "EOF")
  THEN "Closing curly brace expected but reached end of file"
  ELSE ""

parseFields ==
  /\ Running("parseFields")
  /\ LET fields == IF Top.pc = "item" THEN Append(Top.items, ret.node) ELSE Top.items
         runaway == IF Top.pc = "item" THEN fieldsRunaway(currentIndex) ELSE ""
     IN IF runaway # "" THEN Throws(currentIndex, runaway, "")
        ELSE IF ~check(currentIndex, "RightBraceToken")
        THEN Calls(currentIndex, [Top EXCEPT !.pc = "item", !.items = fields],
                   Frame("parseField"))
        ELSE ReturnsList(currentIndex, fields)
  /\ UNCHANGED callerVars /\ UNCHANGED genVars /\ UNCHANGED objectVars

\* Field -> ?Annotation Identifier ':' TypeNode ';'
parseField ==
  /\ Running("parseField")
  /\ IF Top.pc = "start"
     THEN Calls(currentIndex,
                [Top EXCEPT !.pc = "annotations",
                            !.keywordToken = currentToken(currentIndex)],
                Frame("parseAnnotations"))
     ELSE IF Top.pc = "annotations"
     THEN LET r == requireValues(currentIndex,
                     << Expect("Identifier", "Unable to find identifier for field"),
                        Expect("ColonToken", "Type annotation expected for field") >>, <<>>)
          IN IF ~r.ok THEN Throws(r.idx, r.msg, "")
             ELSE Calls(r.idx,
                        [Top EXCEPT !.pc = "type", !.annotations = ret.list,
                                    !.nameToken = r.tokens[1]],
                        Frame("parseTypeNode"))
     ELSE LET r == requireValues(currentIndex,
                     << Expect("SemicolonToken", "Field definition should end with semicolon") >>,
                     <<>>)
          IN IF ~r.ok THEN Throws(r.idx, r.msg, "")
             ELSE Returns(r.idx,
                    createFieldDefinition(
                      createIdentifier(Top.nameToken.text, Top.nameToken.loc),
                      Top.annotations,
                      ret.node,
                      createTextLocation(Top.keywordToken.loc.start, r.tokens[1].loc.end)))
  /\ UNCHANGED callerVars /\ UNCHANGED genVars /\ UNCHANGED objectVars

\* the checks after typeNodes.push(parseTypeNode()); consume('PipeToken')
typeNodesRunaway(i) ==
  IF isStartOfDefinition(currentToken(i))
  THEN "Closing semicolon expected, but new statement found"
  ELSE IF check(i, "EOF")
  THEN "Closing semicolon expected but reached end of file"
  ELSE ""

parseTypeNodes ==
  /\ Running("parseTypeNodes")
  /\ LET typeNodes == IF Top.pc = "item" THEN Append(Top.items, ret.node) ELSE Top.items
         i == IF Top.pc = "item" THEN consume(currentIndex, "PipeToken").idx
              ELSE currentIndex
         runaway == IF Top.pc = "item" THEN typeNodesRunaway(i) ELSE ""
     IN IF runaway # "" THEN Throws(i, runaway, "")
        ELSE IF ~check(i, "SemicolonToken")
        THEN Calls(i, [Top EXCEPT !.pc = "item", !.items = typeNodes],
                   Frame("parseTypeNode"))
        ELSE ReturnsList(i, typeNodes)
  /\ UNCHANGED callerVars /\ UNCHANGED genVars /\ UNCHANGED objectVars

\* TypeNode -> Identifier | BaseType | ContainerType
parseTypeNode ==
  /\ Running("parseTypeNode")
  /\ LET typeToken == currentToken(currentIndex)
         k == typeToken.kind
     IN IF k = "Identifier"
        THEN TailCalls(currentIndex, Frame("parseTypeReferenceNode"))
        ELSE IF k \in {"BooleanKeyword", "StringKeyword", "NumberKeyword"}
        THEN Returns(advance(currentIndex), createKeywordFieldType(k, typeToken.loc))
        ELSE IF k = "StringLiteral"
        THEN Returns(advance(currentIndex),
                     createStringLiteral(typeToken.text, typeToken.loc))
        ELSE IF k = "IntegerLiteral"
        THEN Returns(advance(currentIndex),
                     createIntegerLiteral(typeToken.text, typeToken.loc))
        ELSE IF k = "FloatLiteral"
        THEN Returns(advance(currentIndex),
                     createFloatLiteral(typeToken.text, typeToken.loc))
        ELSE IF k = "TrueKeyword"
        THEN Returns(advance(currentIndex), createBooleanLiteral(TRUE, typeToken.loc))
        ELSE IF k = "FalseKeyword"
        THEN Returns(advance(currentIndex), createBooleanLiteral(FALSE, typeToken.loc))
        ELSE Throws(currentIndex, "TypeNode expected but found: ", k)
  /\ UNCHANGED callerVars /\ UNCHANGED genVars /\ UNCHANGED objectVars

\* TypeReferenceNode -> Identifier('<' TypeNode (',' TypeNode)* '>')*
\* from the test of while (!check('GreaterThanToken')) on, at cursor i with
\* the type arguments typeArgs
typeArgumentsFrom(i, nameToken, typeArgs) ==
  IF ~check(i, "GreaterThanToken")
  THEN Calls(i, [Top EXCEPT !.pc = "item", !.nameToken = nameToken,
                            !.items = typeArgs],
             Frame("parseTypeNode"))
  ELSE LET r == requireValues(i,
                  << Expect("GreaterThanToken", "Map needs to defined contained types") >>,
                  <<>>)
       IN IF ~r.ok THEN Throws(r.idx, r.msg, "")
          ELSE Returns(r.idx,
                 createTypeReferenceNode(
                   createIdentifier(nameToken.text, nameToken.loc),
                   typeArgs,
                   createTextLocation(nameToken.loc.start, r.tokens[1].loc.end)))

parseTypeReferenceNode ==
  /\ Running("parseTypeReferenceNode")
  /\ IF Top.pc = "start"
     THEN LET r == requireValues(currentIndex,
                     << Expect("Identifier", "Unable to find identifier for field") >>, <<>>)
          IN IF ~r.ok THEN Throws(r.idx, r.msg, "")
             ELSE LET nameToken == r.tokens[1]
                      openBracket == consume(r.idx, "LessThanToken")
                  IN IF openBracket.ok
                     THEN typeArgumentsFrom(openBracket.idx, nameToken, <<>>)
                     ELSE Returns(r.idx,
                            createTypeReferenceNode(
                              createIdentifier(nameToken.text, nameToken.loc),
                              <<>>,
                              createTextLocation(nameToken.loc.start, nameToken.loc.end)))
     ELSE LET typeArgs == Append(Top.items, ret.node)
              r == IF check(currentIndex, "GreaterThanToken")
                   THEN requireValues(currentIndex,
                          << Expect("GreaterThanToken",
                                    "Type variables must be separated by a comma") >>, <<>>)
                   ELSE [ok |-> TRUE, idx |-> currentIndex, tokens |-> <<>>, msg |-> ""]
          IN IF ~r.ok THEN Throws(r.idx, r.msg, "")
             ELSE typeArgumentsFrom(r.idx, Top.nameToken, typeArgs)
  /\ UNCHANGED callerVars /\ UNCHANGED genVars /\ UNCHANGED objectVars

(***************************************************************************)
(* The caller of the Parser object {parse, synchronize}                    *)
(***************************************************************************)
NoSchema == [kind |-> "None", body |-> <<>>]
NoTable == [kind |-> "None"]
NoOutcome == [kind |-> "None"]
NoDatabase == [kind |-> "None"]

\* the parser objects made by two calls of createParser, and what the closure
\* of a parser holds when createParser returns: let currentIndex = 0
Parsers == {1, 2}
NoClosure == [currentIndex |-> 0, status |-> "idle", error |-> NoError,
              result |-> NoSchema, history |-> <<>>]

\* the caller calls parse()
CallParse ==
  /\ status # "running"
  /\ calls < MaxCalls
  /\ calls' = calls + 1
  /\ stack' = <<Frame("parse")>>
  /\ status' = "running"
  /\ error' = NoError
  /\ result' = NoSchema
  /\ ret' = NoReturn
  /\ prevThrow' = IF status = "threw" /\ synced THEN error.loc.start ELSE -1
  /\ synced' = FALSE
  /\ UNCHANGED <<tokens, currentIndex, src, mutated>>
  /\ UNCHANGED genVars /\ UNCHANGED objectVars

\* the caller calls synchronize()
synchronize ==
  /\ status # "running"
  /\ currentIndex' = synchronizeFrom(currentIndex)
  /\ synced' = (status = "threw")
  /\ UNCHANGED <<tokens, stack, ret, status, error, result, calls, prevThrow,
                 src, mutated>>
  /\ UNCHANGED genVars /\ UNCHANGED objectVars

Init ==
  /\ \E w \in Schemas :
       /\ src = w.ast
       /\ \/ tokens = Stream(w) /\ mutated = FALSE
          \/ /\ Len(w.toks) + 1 <= MaxMutLen
             /\ \E i \in 1..Len(w.toks), k \in Kinds :
                  /\ k # w.toks[i].kind
                  /\ tokens = Replaced(w, i, k)
             /\ mutated = TRUE
  /\ currentIndex = 0
  /\ stack = <<>>
  /\ ret = NoReturn
  /\ status = "idle"
  /\ error = NoError
  /\ result = NoSchema
  /\ calls = 0
  /\ prevThrow = -1
  /\ synced = FALSE
  /\ def = NoTable
  /\ itemName = NoOutcome
  /\ getArgs = NoOutcome
  /\ getCall = NoOutcome
  /\ database = NoDatabase
  /\ clientType = NoOutcome
  /\ self = 1
  /\ closures = [p \in Parsers |-> NoClosure]

Next ==
  \/ CallParse
  \/ synchronize
  \/ parse
  \/ parseDefinition
  \/ parseDatabaseDefinition
  \/ parseTableDefinitions
  \/ parseTableDefinition
  \/ parseTypeDefinition
  \/ parseAnnotations
  \/ parseAnnotation
  \/ parseAnnotationArgs
  \/ parseFields
  \/ parseField
  \/ parseTypeNodes
  \/ parseTypeNode
  \/ parseTypeReferenceNode

Spec == Init /\ [][Next]_vars

(***************************************************************************)
(* Two parser objects made by two calls of createParser over one token     *)
(* array, and a caller that calls parse() and synchronize() on either.     *)
(* Calls are synchronous: one runs at a time, and currentIndex, status,    *)
(* error and result are those of parser self; the other parser's are kept  *)
(* in closures.                                                            *)
(***************************************************************************)
\* the currentIndex of the closure of parser q, were every parser to read and
\* write one variable
sharedCursor(q) == currentIndex

\* let currentIndex: the variable of the closure of parser q
closureCursor(q) == IF q = self THEN currentIndex ELSE closures[q].currentIndex

\* parser q as its caller sees it: its cursor, the outcome of its last
\* parse() and the calls made on it
View(q) ==
  IF q = self
  THEN [currentIndex |-> closureCursor(q), status |-> status, error |-> error,
        result |-> result, history |-> closures[q].history]
  ELSE [closures[q] EXCEPT !.currentIndex = closureCursor(q)]

\* what the closures hold once call c is made on parser p
Called(p, c) ==
  [q \in Parsers |-> IF q = p THEN [View(p) EXCEPT !.history = Append(@, c)]
                     ELSE View(q)]

\* the caller calls parse() on parser p
CallParseOn(p) ==
  /\ status # "running"
  /\ Len(View(p).history) < MaxCallsEach
  /\ closures' = Called(p, "parse")
  /\ self' = p
  /\ currentIndex' = View(p).currentIndex
  /\ calls' = calls + 1
  /\ stack' = <<Frame("parse")>>
  /\ status' = "running"
  /\ error' = NoError
  /\ result' = NoSchema
  /\ ret' = NoReturn
  /\ UNCHANGED <<tokens, prevThrow, synced, src, mutated>>
  /\ UNCHANGED genVars

\* the caller calls synchronize() on parser p
synchronizeOn(p) ==
  /\ status # "running"
  /\ Len(View(p).history) < MaxCallsEach
  /\ closures' = Called(p, "synchronize")
  /\ self' = p
  /\ currentIndex' = synchronizeFrom(View(p).currentIndex)
  /\ status' = View(p).status
  /\ error' = View(p).error
  /\ result' = View(p).result
  /\ UNCHANGED <<tokens, stack, ret, calls, prevThrow, synced, src, mutated>>
  /\ UNCHANGED genVars

InitTwo == Init /\ Len(tokens) <= MaxTwoLen

NextTwo ==
  \/ \E p \in Parsers : CallParseOn(p)
  \/ \E p \in Parsers : synchronizeOn(p)
  \/ parse
  \/ parseDefinition
  \/ parseDatabaseDefinition
  \/ parseTableDefinitions
  \/ parseTableDefinition
  \/ parseTypeDefinition
  \/ parseAnnotations
  \/ parseAnnotation
  \/ parseAnnotationArgs
  \/ parseFields
  \/ parseField
  \/ parseTypeNodes
  \/ parseTypeNode
  \/ parseTypeReferenceNode

SpecTwo == InitTwo /\ [][NextTwo]_vars

(***************************************************************************)
(* The renderer (client/type.ts, client/getMethod.ts).  The strings whose  *)
(* characters the renderer inspects are sequences of one-character         *)
(* strings, so that capitalize() is computed and not assumed.              *)
(***************************************************************************)
LowerCase == <<"a", "b", "c", "d", "e", "f", "g", "h", "i", "j", "k", "l", "m",
               "n", "o", "p", "q", "r", "s", "t", "u", "v", "w", "x", "y", "z">>
UpperCase == <<"A", "B", "C", "D", "E", "F", "G", "H", "I", "J", "K", "L", "M",
               "N", "O", "P", "Q", "R", "S", "T", "U", "V", "W", "X", "Y", "Z">>

toUpperCase(c) ==
  IF \E i \in DOMAIN LowerCase : LowerCase[i] = c
  THEN UpperCase[CHOOSE i \in DOMAIN LowerCase : LowerCase[i] = c]
  ELSE c

\* ../utils capitalize: the first character in upper case, the rest as it is
capitalize(s) == IF Len(s) = 0 THEN s ELSE <<toUpperCase(s[1])>> \o Tail(s)

\* the annotation names the renderer looks for
itemAnnotationName == <<"i", "t", "e", "m">>
autoincrementAnnotationName ==
  <<"a", "u", "t", "o", "i", "n", "c", "r", "e", "m", "e", "n", "t">>
uniqueAnnotationName == <<"u", "n", "i", "q", "u", "e">>
keyAnnotationName == <<"k", "e", "y">>
indexAnnotationName == <<"i", "n", "d", "e", "x">>

\* the tail of the name of a table's get-argument type
GetArgsSuffix == <<"G", "e", "t", "A", "r", "g", "s">>

\* ../keys getAnnotationsByName: the annotations of that name, in order
getAnnotationsByName(annotations, name) ==
  SelectSeq(annotations, LAMBDA a : a.name.value = name)

Returned(value) == [kind |-> "Returned", value |-> value]
\* throw new Error(message): the Error object has its name and its message
createError(message) == [name |-> "Error", message |-> message]
ThrewError(message) == [kind |-> "Threw", error |-> createError(message)]

getItemNameForTable(d) ==
  LET itemAnnotations == getAnnotationsByName(d.annotations, itemAnnotationName)
      \* itemAnnotations[0]?.arguments: undefined without an item annotation
      hasArguments == Len(itemAnnotations) > 0
      itemArguments == IF hasArguments THEN itemAnnotations[1].arguments ELSE <<>>
  IN IF Len(itemAnnotations) > 1
     THEN ThrewError("Table can only include one annotation for \"item\"")
     ELSE IF hasArguments /\ Len(itemArguments) > 1
     THEN ThrewError("Table can only include one name alias")
     ELSE IF hasArguments /\ Len(itemArguments) > 0
     THEN Returned(itemArguments[1].value)
     ELSE Returned(capitalize(d.name.value))

\* the TypeScript type nodes of the generated declarations
createKeywordTypeNode(name) == [kind |-> "KeywordType", name |-> name]
createNumberType == createKeywordTypeNode("number")
createPropertySignature(name, type) == [name |-> name, type |-> type]
createTypeLiteralNode(members) == [kind |-> "TypeLiteral", members |-> members]

\* ../types typeForTypeNode: the TypeScript type of a field's declared type
typeForTypeNode(type) ==
  IF type.kind = "StringKeyword" THEN createKeywordTypeNode("string")
  ELSE IF type.kind = "NumberKeyword" THEN createKeywordTypeNode("number")
  ELSE IF type.kind = "BooleanKeyword" THEN createKeywordTypeNode("boolean")
  ELSE [kind |-> "TypeReference", name |-> type.name.value]

\* ../keys getIndexesForTable: one key entry per field that carries a primary
\* key marker, then one entry per index name in the order the names first
\* occur, each with its fields in the order they are declared.  A table
\* without a key field has no key entry: the generated get operation provides
\* for it (createConditionsForIndexes, keys.length > 0).
hasAnnotation(field, name) == Len(getAnnotationsByName(field.annotations, name)) > 0
isPrimaryKeyField(field) ==
  hasAnnotation(field, autoincrementAnnotationName) \/ hasAnnotation(field, keyAnnotationName)

indexNamesOfField(field) ==
  LET indexAnnotations == getAnnotationsByName(field.annotations, indexAnnotationName)
  IN [i \in 1..Len(indexAnnotations) |->
        [name |-> IF Len(indexAnnotations[i].arguments) = 0
                  THEN field.name.value
                  ELSE indexAnnotations[i].arguments[1].value,
         field |-> field]]

RECURSIVE indexOccurrences(_)
indexOccurrences(fields) ==
  IF Len(fields) = 0 THEN <<>>
  ELSE indexNamesOfField(Head(fields)) \o indexOccurrences(Tail(fields))

RECURSIVE indexNamesInOrder(_)
indexNamesInOrder(occurrences) ==
  IF Len(occurrences) = 0 THEN <<>>
  ELSE LET n == Len(occurrences)
           before == indexNamesInOrder(SubSeq(occurrences, 1, n - 1))
       IN IF \E i \in DOMAIN before : before[i] = occurrences[n].name
          THEN before
          ELSE Append(before, occurrences[n].name)

createKeyIndex(field) ==
  [indexKind |-> "key", name |-> field.name.value, type |-> field.type,
   fields |-> <<[name |-> field.name.value, type |-> field.type]>>,
   unique |-> TRUE]

createIndex(name, occurrences) ==
  LET members == SelectSeq(occurrences, LAMBDA o : o.name = name)
  IN [indexKind |-> "index", name |-> name, type |-> members[1].field.type,
      fields |-> [i \in 1..Len(members) |->
                    [name |-> members[i].field.name.value,
                     type |-> members[i].field.type]],
      unique |-> \E i \in 1..Len(members) :
                   hasAnnotation(members[i].field, uniqueAnnotationName)]

getIndexesForTable(d) ==
  LET keyFields == SelectSeq(d.body, isPrimaryKeyField)
      occurrences == indexOccurrences(d.body)
      names == indexNamesInOrder(occurrences)
  IN [i \in 1..Len(keyFields) |-> createKeyIndex(keyFields[i])]
     \o [i \in 1..Len(names) |-> createIndex(names[i], occurrences)]

typeNodeForIndex(index) ==
  IF index.indexKind = "key" THEN createNumberType
  ELSE createTypeLiteralNode(
         <<createPropertySignature(index.name, typeForTypeNode(index.type))>>)

createGetArgsTypeName(d) == capitalize(d.name.value) \o GetArgsSuffix

createTypeAliasDeclaration(name, type) ==
  [kind |-> "TypeAliasDeclaration", name |-> name, type |-> type]
createUnionTypeNode(types) == [kind |-> "UnionType", types |-> types]

createGetArgsType(d) ==
  LET indexes == getIndexesForTable(d)
  IN Returned(createTypeAliasDeclaration(
                createGetArgsTypeName(d),
                createUnionTypeNode([i \in 1..Len(indexes) |->
                                       typeNodeForIndex(indexes[i])])))

(***************************************************************************)
(* The client type of a database (client/type.ts)                          *)
(***************************************************************************)
toLowerCaseChar(c) ==
  IF \E i \in DOMAIN UpperCase : UpperCase[i] = c
  THEN LowerCase[CHOOSE i \in DOMAIN UpperCase : UpperCase[i] = c]
  ELSE c
\* String.prototype.toLowerCase
toLowerCase(s) == [i \in 1..Len(s) |-> toLowerCaseChar(s[i])]

ClientSuffix == <<"C", "l", "i", "e", "n", "t">>
\* ./common createDatabaseClientName
createDatabaseClientName(d) == capitalize(d.name.value) \o ClientSuffix

createFunctionTypeNode(parameter, returns) ==
  [kind |-> "FunctionType", parameter |-> parameter, returns |-> returns]

\* (arg: <Table>GetArgs) => Promise<<Item>>
createGetMethodTypeNode(d) ==
  LET item == getItemNameForTable(d)
  IN IF item.kind = "Threw" THEN item
     ELSE Returned(createFunctionTypeNode(createGetArgsTypeName(d), item.value))

\* ./addMethod createAddMethodTypeNode: the argument is made from the item type
createAddMethodTypeNode(d) ==
  LET item == getItemNameForTable(d)
  IN IF item.kind = "Threw" THEN item
     ELSE Returned(createFunctionTypeNode(item.value, <<"k", "e", "y">>))

\* ./getMethod createGetAllMethodTypeNode: the result is a list of items
createGetAllMethodTypeNode(d) ==
  LET item == getItemNameForTable(d)
  IN IF item.kind = "Threw" THEN item
     ELSE Returned(createFunctionTypeNode(<<>>, item.value))

\* the property of the client type for one table: add, get and getAll, made
\* in that order; the first that throws ends it
createClientProperty(next) ==
  LET add == createAddMethodTypeNode(next)
      getMethod == createGetMethodTypeNode(next)
      getAll == createGetAllMethodTypeNode(next)
  IN IF add.kind = "Threw" THEN add
     ELSE IF getMethod.kind = "Threw" THEN getMethod
     ELSE IF getAll.kind = "Threw" THEN getAll
     ELSE Returned(createPropertySignature(
            toLowerCase(next.name.value),
            createTypeLiteralNode(
              <<createPropertySignature(<<"a", "d", "d">>, add.value),
                createPropertySignature(<<"g", "e", "t">>, getMethod.value),
                createPropertySignature(<<"g", "e", "t", "A", "l", "l">>, getAll.value)>>)))

\* def.body.map(...): the exception of the first table that throws leaves map
\* and createClientTypeDeclaration
createClientTypeDeclaration(d) ==
  LET properties == [i \in 1..Len(d.body) |-> createClientProperty(d.body[i])]
      thrown == { i \in 1..Len(d.body) : properties[i].kind = "Threw" }
  IN IF thrown # {}
     THEN properties[CHOOSE i \in thrown : \A j \in thrown : i <= j]
     ELSE Returned(createTypeAliasDeclaration(
            createDatabaseClientName(d),
            createTypeLiteralNode([i \in 1..Len(d.body) |-> properties[i].value])))

(***************************************************************************)
(* The get operation the renderer generates for a table (getMethod.ts):    *)
(* the statements createIndexAccessHandling emits, and their execution on  *)
(* an argument.                                                            *)
(***************************************************************************)
NoStatement == [kind |-> "None"]

isPrefix == <<"i", "s">>
IndexSuffix == <<"I", "n", "d", "e", "x">>
createPredicateNameForIndex(d, field) ==
  isPrefix \o capitalize(d.name.value) \o capitalize(field.name) \o IndexSuffix

\* const is<Table><Index>Index = (arg) => typeof arg === 'object' &&
\*                                          Reflect.has(arg, '<index>')
createIndexPredicates(d) ==
  LET indexes == getIndexesForTable(d)
  IN [i \in 1..Len(indexes) |->
        [name |-> createPredicateNameForIndex(d, indexes[i]),
         has |-> indexes[i].name]]

\* { const index = store.index('<name>'); getRequest = index.get(arg.<name>) }
createIndexGetBlock(next) ==
  [kind |-> "Block",
   statements |-> <<[kind |-> "IndexGet", index |-> next.name, property |-> next.name]>>]

\* { getRequest = store.get(arg) }
createStoreGetBlock ==
  [kind |-> "Block", statements |-> <<[kind |-> "StoreGet"]>>]

\* createConditionsForIndexes without the else branch of the if statement:
\* only the first index is tried
createConditionsForFirstIndex(d, indexes, keys) ==
  IF Len(indexes) > 0
  THEN <<[kind |-> "IfStatement",
          predicate |-> createPredicateNameForIndex(d, Head(indexes)),
          thenStatement |-> createIndexGetBlock(Head(indexes)),
          elseStatement |-> NoStatement]>>
  ELSE IF Len(keys) > 0 THEN <<createStoreGetBlock>>
  ELSE <<>>

RECURSIVE createConditionsForIndexes(_, _, _)
createConditionsForIndexes(d, indexes, keys) ==
  IF Len(indexes) > 0
  THEN LET next == Head(indexes)
           remaining == createConditionsForIndexes(d, Tail(indexes), keys)
       IN <<[kind |-> "IfStatement",
             predicate |-> createPredicateNameForIndex(d, next),
             thenStatement |-> createIndexGetBlock(next),
             \* createConditionsForIndexes(def, remaining, keys)[0]
             elseStatement |-> IF Len(remaining) > 0 THEN remaining[1]
                               ELSE NoStatement]>>
  ELSE IF Len(keys) > 0 THEN <<createStoreGetBlock>>
  ELSE <<>>

createIndexAccessHandling(d) ==
  LET indexesAndKeys == getIndexesForTable(d)
      indexes == SelectSeq(indexesAndKeys, LAMBDA next : next.indexKind # "key")
      keys == SelectSeq(indexesAndKeys, LAMBDA next : next.indexKind # "index")
  IN createConditionsForIndexes(d, indexes, keys)

\* the values an argument or a property of it may be
Undefined == [type |-> "undefined"]
NumberValue == [type |-> "number", value |-> 7]
ObjectValue(props) == [type |-> "object", props |-> props]

\* Reflect.has(arg, name) for the objects of the model, which have no prototype
ReflectHas(arg, name) == name \in DOMAIN arg.props
\* arg.<name>
GetProperty(arg, name) ==
  IF arg.type = "object" /\ ReflectHas(arg, name) THEN arg.props[name] ELSE Undefined

\* the call of the predicate of that name on arg
CallPredicate(predicates, name, arg) ==
  LET p == predicates[CHOOSE i \in DOMAIN predicates : predicates[i].name = name]
  IN arg.type = "object" /\ ReflectHas(arg, p.has)

\* the requests made by running a statement, in the order they are made
RECURSIVE ExecuteStatement(_, _, _, _)
ExecuteStatement(statement, storeName, predicates, arg) ==
  IF statement.kind = "IfStatement"
  THEN IF CallPredicate(predicates, statement.predicate, arg)
       THEN ExecuteStatement(statement.thenStatement, storeName, predicates, arg)
       ELSE ExecuteStatement(statement.elseStatement, storeName, predicates, arg)
  ELSE IF statement.kind = "Block"
  THEN IF Len(statement.statements) = 0 THEN <<>>
       ELSE ExecuteStatement(Head(statement.statements), storeName, predicates, arg)
            \o ExecuteStatement([statement EXCEPT !.statements = Tail(@)],
                                storeName, predicates, arg)
  ELSE IF statement.kind = "IndexGet"
  THEN <<[via |-> "index", store |-> storeName, index |-> statement.index,
          query |-> GetProperty(arg, statement.property)]>>
  ELSE IF statement.kind = "StoreGet"
  THEN <<[via |-> "store", store |-> storeName, query |-> arg]>>
  ELSE <<>>

NoRequest == [via |-> "null"]

\* get: (arg) => new Promise((resolve, reject) => { ... }): the transaction
\* and the object store of the table, let getRequest = null, the statements
\* of createConditionsForIndexes, and the rejection when getRequest is null
get(d, arg) ==
  LET requests == ExecuteStatement(
                    [kind |-> "Block", statements |-> createIndexAccessHandling(d)],
                    d.name.value, createIndexPredicates(d), arg)
      getRequest == IF Len(requests) = 0 THEN NoRequest ELSE requests[Len(requests)]
  IN [kind |-> "Called", arg |-> arg, requests |-> requests,
      getRequest |-> getRequest,
      rejected |-> IF getRequest = NoRequest
                   THEN "No available index for given query" ELSE ""]

(***************************************************************************)
(* The table definitions handed to the renderer                            *)
(***************************************************************************)
NoLocation == createTextLocation(0, 0)

GenTableNames == {<<"p", "o", "s", "t", "s">>, <<"P", "o", "s", "t", "s">>}
\* the values of the arguments of @item: the empty string literal included
GenItemNames == {<<>>, <<"P", "o", "s", "t">>}
\* field j of a table is named GenFieldNames[j]
GenFieldNames == <<<<"i", "d">>, <<"t", "i", "t", "l", "e">>,
                   <<"a", "u", "t", "h", "o", "r">>, <<"n", "a", "m", "e">>>>
GenGroupName == <<"g">>

GenAnnotation(name, values) ==
  createAnnotation(createIdentifier(name, NoLocation),
                   [i \in 1..Len(values) |-> createStringLiteral(values[i], NoLocation)],
                   NoLocation)

SeqsUpTo(S, n) == UNION { [1..k -> S] : k \in 0..n }

GenItemAnnotations ==
  { GenAnnotation(itemAnnotationName, values) : values \in SeqsUpTo(GenItemNames, MaxItemArgs) }
GenItemAnnotationLists == SeqsUpTo(GenItemAnnotations, MaxItemAnns)

\* the ways a field is declared: unmarked, a numeric or a string key, a
\* simple index, a member of the index group, and both
GenFieldChoices ==
  LET stringType == createKeywordFieldType("StringKeyword", NoLocation)
      numberType == createKeywordFieldType("NumberKeyword", NoLocation)
  IN { [annotations |-> <<>>, type |-> stringType],
       [annotations |-> <<GenAnnotation(autoincrementAnnotationName, <<>>)>>,
        type |-> numberType],
       [annotations |-> <<GenAnnotation(keyAnnotationName, <<>>)>>,
        type |-> stringType],
       [annotations |-> <<GenAnnotation(indexAnnotationName, <<>>)>>,
        type |-> stringType],
       [annotations |-> <<GenAnnotation(indexAnnotationName, <<GenGroupName>>)>>,
        type |-> stringType],
       [annotations |-> <<GenAnnotation(indexAnnotationName, <<>>),
                          GenAnnotation(indexAnnotationName, <<GenGroupName>>)>>,
        type |-> numberType] }

GenField(j, annotations, type) ==
  createFieldDefinition(createIdentifier(GenFieldNames[j], NoLocation),
                        annotations, type, NoLocation)
GenFieldLists ==
  UNION { { [j \in 1..k |-> GenField(j, c[j].annotations, c[j].type)]
            : c \in [1..k -> GenFieldChoices] }
          : k \in 0..MaxGenFields }

\* every table of either name with its @item annotations and no field, and
\* the table posts without annotation with every list of fields
TableDefinitions ==
  { createTableDefinition(createIdentifier(name, NoLocation), <<>>, annotations,
                          NoLocation)
    : name \in GenTableNames, annotations \in GenItemAnnotationLists }
  \cup
  { createTableDefinition(createIdentifier(<<"p", "o", "s", "t", "s">>, NoLocation),
                          fields, <<>>, NoLocation)
    : fields \in GenFieldLists }

\* the databases handed to the renderer, of tables without field: table i
\* named GenDbTableNames[i] with @item annotations that name the one alias,
\* and tables without annotation of every spelling
GenDbTableNames == <<<<"p", "o", "s", "t", "s">>, <<"u", "s", "e", "r", "s">>,
                     <<"t", "a", "g", "s">>>>
\* the spellings of the names of tables without annotation: identifiers that
\* differ in the case of their letters only, and one that differs otherwise
GenDbTableSpellings == {<<"p", "o", "s", "t", "s">>, <<"P", "o", "s", "t", "s">>,
                        <<"p", "O", "S", "T", "S">>, <<"u", "s", "e", "r", "s">>}
GenDbItemAnnotationLists ==
  SeqsUpTo({ GenAnnotation(itemAnnotationName, values)
             : values \in SeqsUpTo({<<"P", "o", "s", "t">>}, MaxItemArgs) },
           MaxItemAnns)
DatabaseDefinitions ==
  UNION { { createDatabaseDefinition(
              createIdentifier(<<"b", "l", "o", "g">>, NoLocation),
              [i \in 1..k |-> createTableDefinition(
                                createIdentifier(GenDbTableNames[i], NoLocation),
                                <<>>, a[i], NoLocation)],
              NoLocation)
            : a \in [1..k -> GenDbItemAnnotationLists] }
          : k \in 0..MaxGenTables }
  \cup
  UNION { { createDatabaseDefinition(
              createIdentifier(<<"b", "l", "o", "g">>, NoLocation),
              [i \in 1..k |-> createTableDefinition(
                                createIdentifier(n[i], NoLocation),
                                <<>>, <<>>, NoLocation)],
              NoLocation)
            : n \in [1..k -> GenDbTableSpellings] }
          : k \in 0..MaxGenTables }

\* const clientType = createClientTypeDeclaration(database)
CallCreateClientTypeDeclaration ==
  /\ database.kind = "DatabaseDefinition"
  /\ clientType' = createClientTypeDeclaration(database)
  /\ UNCHANGED <<def, itemName, getArgs, getCall, database>>
  /\ UNCHANGED parserVars

\* the arguments handed to the generated get: the bare value, and the objects
\* with up to MaxArgProps of the names of fields and index groups
GenPropertyNames == { GenFieldNames[j] : j \in 1..MaxGenFields } \cup {GenGroupName}
GenArgs ==
  {NumberValue} \cup
  { ObjectValue([n \in names |-> NumberValue])
    : names \in { S \in SUBSET GenPropertyNames : Cardinality(S) <= MaxArgProps } }

\* the client calls db.<table>.get(arg)
CallGet ==
  /\ def.kind = "TableDefinition"
  /\ \E arg \in GenArgs : getCall' = get(def, arg)
  /\ UNCHANGED <<def, itemName, getArgs, database, clientType>>
  /\ UNCHANGED parserVars

\* const itemName = getItemNameForTable(def)
CallGetItemNameForTable ==
  /\ def.kind = "TableDefinition"
  /\ itemName' = getItemNameForTable(def)
  /\ UNCHANGED <<def, getArgs, getCall, database, clientType>>
  /\ UNCHANGED parserVars

\* const getArgs = createGetArgsType(def)
CallCreateGetArgsType ==
  /\ def.kind = "TableDefinition"
  /\ getArgs' = createGetArgsType(def)
  /\ UNCHANGED <<def, itemName, getCall, database, clientType>>
  /\ UNCHANGED parserVars

InitGen ==
  /\ \/ def \in TableDefinitions /\ database = NoDatabase
     \/ def = NoTable /\ database \in DatabaseDefinitions
  /\ itemName = NoOutcome
  /\ getArgs = NoOutcome
  /\ getCall = NoOutcome
  /\ clientType = NoOutcome
  /\ tokens = Locate(<<T("EOF")>>)
  /\ src = <<>>
  /\ mutated = FALSE
  /\ currentIndex = 0
  /\ stack = <<>>
  /\ ret = NoReturn
  /\ status = "idle"
  /\ error = NoError
  /\ result = NoSchema
  /\ calls = 0
  /\ prevThrow = -1
  /\ synced = FALSE
  /\ self = 1
  /\ closures = [p \in Parsers |-> NoClosure]

NextGen ==
  \/ CallGetItemNameForTable
  \/ CallCreateGetArgsType
  \/ CallGet
  \/ CallCreateClientTypeDeclaration

SpecGen == InitGen /\ [][NextGen]_vars

(***************************************************************************)
(* What a returned DatabaseSchema says, without the locations, in the      *)
(* form of the schema the stream was written from                          *)
(***************************************************************************)
RECURSIVE ShapeOfType(_)
ShapeOfType(n) ==
  IF n.kind = "TypeReferenceNode"
  THEN [kind |-> "TypeReference", name |-> n.name.value,
        typeArguments |-> [i \in 1..Len(n.typeArguments) |->
                             ShapeOfType(n.typeArguments[i])]]
  ELSE IF n.kind \in {"BooleanKeyword", "StringKeyword", "NumberKeyword"}
  THEN [kind |-> n.kind]
  ELSE [kind |-> n.kind, value |-> n.value]

ShapeOfAnnotation(a) ==
  [name |-> a.name.value,
   arguments |-> [i \in 1..Len(a.arguments) |-> a.arguments[i].value]]

ShapeOfAnnotations(as) == [i \in 1..Len(as) |-> ShapeOfAnnotation(as[i])]

ShapeOfField(f) ==
  [name |-> f.name.value, annotations |-> ShapeOfAnnotations(f.annotations),
   type |-> ShapeOfType(f.type)]

ShapeOfTable(t) ==
  [name |-> t.name.value, annotations |-> ShapeOfAnnotations(t.annotations),
   fields |-> [i \in 1..Len(t.body) |-> ShapeOfField(t.body[i])]]

ShapeOfDefinition(d) ==
  IF d.kind = "DatabaseDefinition"
  THEN [kind |-> "DatabaseDefinition", name |-> d.name.value,
        annotations |-> IF "annotations" \in DOMAIN d
                        THEN ShapeOfAnnotations(d.annotations) ELSE <<>>,
        tables |-> [i \in 1..Len(d.body) |-> ShapeOfTable(d.body[i])]]
  ELSE [kind |-> "TypeDefinition", name |-> d.name.value,
        alternatives |-> [i \in 1..Len(d.body) |-> ShapeOfType(d.body[i])]]

ShapeOfSchema(schema) == [i \in 1..Len(schema.body) |-> ShapeOfDefinition(schema.body[i])]

\* the first parse() of the stream as written, from its first token, is over
FirstParseOver == calls = 1 /\ status \in {"returned", "threw"}

(***************************************************************************)
(* Properties of the parser                                                *)
(***************************************************************************)

\* C1: parse() terminates on every EOF-terminated stream: while it runs, the
\* step of the function it is in changes the parser's state (every round of
\* a list-parsing loop advances the cursor, calls, returns or throws), so
\* that it is never in a state it stays in for ever.
C1_ParseNeverStalls == status = "running" => ENABLED <<Next>>_vars

\* C2: a stream written from databases with annotations between the name
\* and '{' (and nothing else in them) is parsed without error, and each
\* DatabaseDefinition returned carries the annotations written.
SrcAnnotatedDatabases ==
  /\ src # <<>>
  /\ \A i \in 1..Len(src) :
       /\ src[i].kind = "DatabaseDefinition"
       /\ src[i].annotations # <<>>
       /\ src[i].tables = <<>>

C2_DatabaseAnnotationsAccepted ==
  (~mutated /\ FirstParseOver /\ SrcAnnotatedDatabases)
    => /\ status = "returned"
       /\ Len(result.body) = Len(src)
       /\ \A i \in 1..Len(src) :
            ShapeOfDefinition(result.body[i]).annotations = src[i].annotations

\* C3: a stream written from n well-formed top-level definitions is parsed
\* into a DatabaseSchema of exactly these n definitions, in source order,
\* each with its kind and name, the tables and fields of each database in
\* declaration order; and parseDefinition at a token that is neither
\* 'database' nor 'type' throws.
C3_WellFormedDefinitionsParsed ==
  /\ (~mutated /\ FirstParseOver)
       => (status = "returned" /\ ShapeOfSchema(result) = src)
  /\ (Running("parseDefinition")
        /\ currentToken(currentIndex).kind \notin {"DatabaseKeyword", "TypeKeyword"})
       => ENABLED (parseDefinition /\ status' = "threw")

\* C4: a parse() that follows a parse() that threw and a synchronize() ends
\* further along the stream than where the earlier one threw, unless that
\* was at the end of the input: every round of synchronize() and parse()
\* makes progress.
C4_RoundsMakeProgress ==
  (prevThrow >= 0 /\ status \in {"returned", "threw"})
    => (currentIndex > prevThrow \/ tokens[prevThrow + 1].kind = "EOF")

\* C5: once the body of a list (the tables of a database, the fields of a
\* table, the arguments of an annotation, the alternatives of a type
\* definition) is at EOF or at a keyword that starts a definition other than
\* an element of the list, parse() does not stall there and stays there
\* until it throws: it never returns a schema and never moves on.
ListFrame(f) ==
  \/ f.fn \in {"parseTableDefinitions", "parseFields", "parseTypeNodes"}
  \/ f.fn = "parseAnnotationArgs" /\ f.pc = "loop"

RunawayKinds(f) ==
  IF f.fn = "parseTableDefinitions"
  THEN {"EOF", "DatabaseKeyword", "TypeKeyword"}
  ELSE {"EOF", "DatabaseKeyword", "TableKeyword", "TypeKeyword"}

InRunaway ==
  /\ status = "running"
  /\ \E n \in 1..Len(stack) :
       /\ ListFrame(stack[n])
       /\ currentToken(currentIndex).kind \in RunawayKinds(stack[n])

C5_RunawayListsRaise ==
  /\ [](InRunaway => ENABLED <<Next>>_vars)
  /\ [][InRunaway => (InRunaway' \/ status' = "threw")]_vars

C5_Witness ==
  /\ status = "threw"
  /\ ~synced
  /\ error.message = "Closing paren ')' expected but reached end of file"
  /\ currentToken(currentIndex).kind = "EOF"

\* C6: the ParseError of a parse() that threw is located at the token at
\* the cursor, which is not of a kind the failed requireValue asked for, and
\* the parse() returned no schema.
ExpectedKinds(msg) ==
  CASE msg = "Unable to find database keyword for database" -> {"DatabaseKeyword"}
    [] msg = "Unable to find identifier for database" -> {"Identifier"}
    [] msg = "Expected opening curly brace" -> {"LeftBraceToken"}
    [] msg = "Expected closing curly brace" -> {"RightBraceToken"}
    [] msg = "Unable to find table keyword for table" -> {"TableKeyword"}
    [] msg = "Unable to find identifier for table" -> {"Identifier"}
    [] msg = "Unable to find type keyword for type" -> {"TypeKeyword"}
    [] msg = "Unable to find identifier for type" -> {"Identifier"}
    [] msg = "Expected '='" -> {"EqualToken"}
    [] msg = "Field definition should end with semicolon" -> {"SemicolonToken"}
    [] msg = "Unable to find identifier for field" -> {"Identifier"}
    [] msg = "Annotation must have a name" -> {"Identifier"}
    [] msg = "Type annotation expected for field" -> {"ColonToken"}
    [] msg = "Type variables must be separated by a comma" -> {"GreaterThanToken"}
    [] msg = "Map needs to defined contained types" -> {"GreaterThanToken"}
    [] OTHER -> {}

C6_ErrorAtOffendingToken ==
  (status = "threw" /\ ~synced)
    => /\ error.loc = currentToken(currentIndex).loc
       /\ currentToken(currentIndex).kind \notin ExpectedKinds(error.message)
       /\ result = NoSchema

C6_Witness ==
  /\ status = "threw"
  /\ ~synced
  /\ error.message = "Expected opening curly brace"
  /\ currentIndex >= 2
  /\ tokens[currentIndex].kind = "Identifier"

(***************************************************************************)
(* C7  getItemNameForTable: more than one @item annotation raises; an      *)
(* @item annotation with more than one argument raises; with exactly one   *)
(* argument the result is that argument's value; without @item annotation  *)
(* it is the capitalized table name; and no table gets an empty alias.     *)
(***************************************************************************)
C7_ItemNameRules ==
  itemName.kind # "None" =>
    LET items == getAnnotationsByName(def.annotations, itemAnnotationName)
    IN /\ Len(items) > 1 => itemName.kind = "Threw"
       /\ (Len(items) = 1 /\ Len(items[1].arguments) > 1) => itemName.kind = "Threw"
       /\ (Len(items) = 1 /\ Len(items[1].arguments) = 1) =>
            itemName = Returned(items[1].arguments[1].value)
       /\ Len(items) = 0 => itemName = Returned(capitalize(def.name.value))
       /\ itemName.kind = "Returned" => Len(itemName.value) > 0

(***************************************************************************)
(* C8  For the table with autoincrement key id: number and the simple      *)
(* indexes title: string and author: string, the get-argument type is the  *)
(* union of exactly number, {id: number}, {title: string} and              *)
(* {author: string}.                                                       *)
(***************************************************************************)
PostsFields ==
  <<GenField(1, <<GenAnnotation(autoincrementAnnotationName, <<>>)>>,
             createKeywordFieldType("NumberKeyword", NoLocation)),
    GenField(2, <<GenAnnotation(indexAnnotationName, <<>>)>>,
             createKeywordFieldType("StringKeyword", NoLocation)),
    GenField(3, <<GenAnnotation(indexAnnotationName, <<>>)>>,
             createKeywordFieldType("StringKeyword", NoLocation))>>

ObjectTypeOf(fields) ==
  createTypeLiteralNode([i \in 1..Len(fields) |->
    createPropertySignature(fields[i].name, typeForTypeNode(fields[i].type))])

PostsGetArgs ==
  { createKeywordTypeNode("number"),
    ObjectTypeOf(<<[name |-> GenFieldNames[1],
                    type |-> createKeywordFieldType("NumberKeyword", NoLocation)]>>),
    ObjectTypeOf(<<[name |-> GenFieldNames[2],
                    type |-> createKeywordFieldType("StringKeyword", NoLocation)]>>),
    ObjectTypeOf(<<[name |-> GenFieldNames[3],
                    type |-> createKeywordFieldType("StringKeyword", NoLocation)]>>) }

C8_GetArgsCompleteness ==
  (getArgs.kind # "None" /\ def.body = PostsFields) =>
    /\ getArgs.kind = "Returned"
    /\ LET types == getArgs.value.type.types
       IN /\ { types[i] : i \in DOMAIN types } = PostsGetArgs
          /\ Len(types) = Cardinality(PostsGetArgs)

(***************************************************************************)
(* C9  The alternative of the get-argument type for the primary key is    *)
(* the type of the key field, whatever type the @key or @autoincrement     *)
(* field is declared with.                                                 *)
(***************************************************************************)
C9_KeyAlternativeHasKeyType ==
  getArgs.kind = "Returned" =>
    LET indexes == getIndexesForTable(def)
        types == getArgs.value.type.types
    IN \A i \in DOMAIN indexes :
         indexes[i].indexKind = "key" =>
           types[i] = typeForTypeNode(indexes[i].fields[1].type)

(***************************************************************************)
(* C10  The alternative of the get-argument type for a compound index     *)
(* (two or more fields under one @index("group") name) is an object type   *)
(* with one property per field of the index, named after the fields in     *)
(* the order they are declared and typed by the fields' types.             *)
(***************************************************************************)
C10_CompoundAlternativeByFieldNames ==
  getArgs.kind = "Returned" =>
    LET indexes == getIndexesForTable(def)
        types == getArgs.value.type.types
    IN \A i \in DOMAIN indexes :
         (indexes[i].indexKind = "index" /\ Len(indexes[i].fields) >= 2) =>
           types[i] = ObjectTypeOf(indexes[i].fields)

(***************************************************************************)
(* C11  The generated get looks a record up by primary key both for the   *)
(* bare key value and for the object {<keyField>: value}: in both forms    *)
(* the object store's get is handed the scalar key value; and for an       *)
(* object {<indexName>: value} of a secondary index the index of that      *)
(* name is asked for value.                                                *)
(***************************************************************************)
KeyEntries == SelectSeq(getIndexesForTable(def), LAMBDA next : next.indexKind = "key")
IndexEntries == SelectSeq(getIndexesForTable(def), LAMBDA next : next.indexKind = "index")
StoreGet(value) == [via |-> "store", store |-> def.name.value, query |-> value]

C11_GetByKeyOrIndex ==
  (getCall.kind = "Called" /\ Len(KeyEntries) = 1) =>
    LET arg == getCall.arg
        keyField == KeyEntries[1].name
    IN /\ arg.type = "number" => getCall.requests = <<StoreGet(arg)>>
       /\ (arg.type = "object" /\ DOMAIN arg.props = {keyField}) =>
            getCall.requests = <<StoreGet(arg.props[keyField])>>
       /\ \A i \in DOMAIN IndexEntries :
            (arg.type = "object" /\ DOMAIN arg.props = {IndexEntries[i].name}) =>
              getCall.requests = <<[via |-> "index", store |-> def.name.value,
                                    index |-> IndexEntries[i].name,
                                    query |-> arg.props[IndexEntries[i].name]]>>

(***************************************************************************)
(* C12  Every error raised carries a kind, a message and a location, and  *)
(* the location is one of the source text: the ParseError of the parser    *)
(* (a token's location) and the errors getItemNameForTable raises for a    *)
(* duplicate @item annotation or a wrong number of @item arguments (the    *)
(* location of an annotation of the table).                                *)
(***************************************************************************)
HasDiagnosticFields(e) == {"kind", "message", "loc"} \subseteq DOMAIN e

C12_ErrorsCarryKindMessageLocation ==
  /\ status = "threw" =>
       /\ HasDiagnosticFields(error)
       /\ \E i \in DOMAIN tokens : tokens[i].loc = error.loc
  /\ itemName.kind = "Threw" =>
       /\ HasDiagnosticFields(itemName.error)
       /\ \E i \in DOMAIN def.annotations :
            def.annotations[i].loc = itemName.error.loc

(***************************************************************************)
(* C13  A duplicate @item annotation or a wrong number of @item arguments *)
(* on one table fails only that table: the client type of the database     *)
(* is still made and has the entry of every other table.                   *)
(***************************************************************************)
C13_TableErrorFailsOnlyThatTable ==
  clientType.kind # "None" =>
    \A i \in DOMAIN database.body :
      getItemNameForTable(database.body[i]).kind = "Returned" =>
        /\ clientType.kind = "Returned"
        /\ \E j \in DOMAIN clientType.value.type.members :
             clientType.value.type.members[j] = createClientProperty(database.body[i]).value

(***************************************************************************)
(* C14  A field written name ':' type '=' literal ';' is accepted by the  *)
(* parser, and the FieldDefinition made for it carries the literal as its  *)
(* default.                                                                *)
(***************************************************************************)
\* the stream is written from databases without annotations whose fields
\* have keyword types, one of them at least with a default value
SrcFieldsWithDefaults ==
  /\ src # <<>>
  /\ \A i \in 1..Len(src) :
       /\ src[i].kind = "DatabaseDefinition"
       /\ src[i].annotations = <<>>
       /\ \A j \in 1..Len(src[i].tables) : \A k \in 1..Len(src[i].tables[j].fields) :
            src[i].tables[j].fields[k].type.kind = "StringKeyword"
  /\ \E i \in 1..Len(src) :
       \E j \in 1..Len(src[i].tables) : \E k \in 1..Len(src[i].tables[j].fields) :
         "default" \in DOMAIN src[i].tables[j].fields[k]

C14_FieldDefaultAccepted ==
  (~mutated /\ FirstParseOver /\ SrcFieldsWithDefaults) =>
    /\ status = "returned"
    /\ Len(result.body) = Len(src)
    /\ \A i \in 1..Len(src) :
         \A j \in 1..Len(src[i].tables) : \A k \in 1..Len(src[i].tables[j].fields) :
           LET written == src[i].tables[j].fields[k]
               field == result.body[i].body[j].body[k]
           IN "default" \in DOMAIN written =>
                /\ field.name.value = written.name
                /\ "default" \in DOMAIN field
                /\ field.default.kind = written.default.kind
                /\ field.default.value = written.default.value

(***************************************************************************)
(* C15  A type reference with type arguments, Identifier '<' TypeNode     *)
(* (',' TypeNode)* '>', is accepted where a type node is expected and      *)
(* gives a TypeReference with exactly the type arguments written, in       *)
(* order, the cursor being left after the one closing '>'; a type          *)
(* reference without '<' has no type arguments.                            *)
(***************************************************************************)
\* the stream is written from databases without annotations and fields
\* without default values, and from type definitions
SrcWithoutAnnotationsAndDefaults ==
  \A i \in 1..Len(src) :
    src[i].kind = "DatabaseDefinition" =>
      /\ src[i].annotations = <<>>
      /\ \A j \in 1..Len(src[i].tables) : \A k \in 1..Len(src[i].tables[j].fields) :
           "default" \notin DOMAIN src[i].tables[j].fields[k]

C15_TypeArgumentsAccepted ==
  (~mutated /\ FirstParseOver /\ SrcWithoutAnnotationsAndDefaults) =>
    /\ status = "returned"
    /\ ShapeOfSchema(result) = src
    /\ currentToken(currentIndex).kind = "EOF"

(***************************************************************************)
(* C16  A type definition is accepted exactly when it is written 'type'   *)
(* Identifier '=' TypeNode ('|' TypeNode)* ';': a stream written so is     *)
(* parsed into the TypeDefinition of its alternatives in order, and every  *)
(* TypeDefinition returned has at least one alternative, the first right   *)
(* after '=', each next one after exactly one '|', the last right before   *)
(* ';'.                                                                    *)
(***************************************************************************)
\* the stream is written from type definitions of keywords and plain names
SrcPlainTypeDefinitions ==
  \A i \in 1..Len(src) :
    /\ src[i].kind = "TypeDefinition"
    /\ \A k \in 1..Len(src[i].alternatives) :
         src[i].alternatives[k].kind = "TypeReference" =>
           src[i].alternatives[k].typeArguments = <<>>

\* token t of the stream has the location [t - 1, t]: d spans 'type', the
\* name, '=', its alternatives and ';'
WrittenAsTypeDefinition(d) ==
  LET n == Len(d.body)
  IN /\ n >= 1
     /\ d.body[1].loc.start = d.loc.start + 3
     /\ \A k \in 1..(n - 1) :
          /\ tokens[d.body[k].loc.end + 1].kind = "PipeToken"
          /\ d.body[k + 1].loc.start = d.body[k].loc.end + 1
     /\ d.body[n].loc.end = d.loc.end - 1

C16_TypeDefinitionGrammar ==
  /\ (~mutated /\ FirstParseOver /\ SrcPlainTypeDefinitions)
       => (status = "returned" /\ ShapeOfSchema(result) = src)
  /\ status = "returned" =>
       \A i \in 1..Len(result.body) :
         result.body[i].kind = "TypeDefinition" => WrittenAsTypeDefinition(result.body[i])

(***************************************************************************)
(* C17  Two parsers made by two calls of createParser share no cursor:    *)
(* however the calls of parse() and synchronize() on the two are           *)
(* interleaved, a parser's results and cursor are those of the calls made  *)
(* on it alone, so that two parsers over the same tokens on which the same *)
(* calls were made show the same outcome and cursor; and the token array   *)
(* is never modified.                                                      *)
(***************************************************************************)
C17_ParsersAreIsolated ==
  /\ [](status # "running" =>
          \A p, q \in Parsers :
            View(p).history = View(q).history => View(p) = View(q))
  /\ [][tokens' = tokens]_vars

C17_Witness ==
  /\ status = "threw"
  /\ self = 2
  /\ View(1).history = <<"parse", "synchronize">>
  /\ View(2).history = <<"parse">>
  /\ View(1).status = "threw"
  /\ View(1).currentIndex > View(2).currentIndex
  /\ View(2).currentIndex > 0

(***************************************************************************)
(* C18  synchronize() returns with the cursor on a 'database', 'table' or *)
(* 'type' keyword or on EOF; none of the tokens it skipped is one of       *)
(* these; and called with the cursor on one of these, it leaves the        *)
(* cursor where it is.                                                     *)
(***************************************************************************)
SynchronizeStops(i) ==
  tokens[i + 1].kind \in {"DatabaseKeyword", "TableKeyword", "TypeKeyword", "EOF"}

C18_SynchronizePostcondition ==
  [][synchronize =>
       /\ SynchronizeStops(currentIndex')
       /\ currentIndex' >= currentIndex
       /\ \A i \in currentIndex..(currentIndex' - 1) : ~SynchronizeStops(i)
       /\ SynchronizeStops(currentIndex) => currentIndex' = currentIndex]_vars

C18_Witness ==
  /\ synced
  /\ status = "threw"
  /\ currentIndex > error.loc.start + 1
  /\ currentToken(currentIndex).kind = "TableKeyword"

(***************************************************************************)
(* C19  On a token stream that ends with its only EOF, whatever calls of  *)
(* parse() and synchronize() are made, the cursor stays within             *)
(* 0..length-1 (never past the EOF token, so that currentToken() is        *)
(* defined), it never decreases, and after a parse() that returned it is   *)
(* on the EOF token.                                                       *)
(***************************************************************************)
C19_CursorInvariant ==
  /\ [](/\ 0 <= currentIndex
        /\ currentIndex <= Len(tokens) - 1
        /\ (status = "returned" => currentToken(currentIndex).kind = "EOF"))
  /\ [][currentIndex' >= currentIndex]_vars

C19_Witness ==
  /\ status = "returned"
  /\ prevThrow >= 0
  /\ Len(result.body) >= 1
  /\ currentIndex = Len(tokens) - 1

(***************************************************************************)
(* C20  A call of the generated get makes at most one request: through    *)
(* the first secondary index, in the order of getIndexesForTable, whose    *)
(* predicate holds of the argument, and otherwise store.get(arg) when the  *)
(* table has a key entry.  The call is rejected with 'No available index   *)
(* for given query' exactly when the table has no key entry and no         *)
(* predicate of a secondary index holds.                                   *)
(***************************************************************************)
MatchingIndexes ==
  { i \in DOMAIN IndexEntries :
      getCall.arg.type = "object" /\ IndexEntries[i].name \in DOMAIN getCall.arg.props }

GetArgsNameOfEntry(entry) == entry.type.members[2].type.parameter

C21_DistinctGeneratedNames ==
  clientType.kind = "Returned" =>
    \A i, j \in DOMAIN database.body :
      database.body[i].name.value # database.body[j].name.value =>
        /\ clientType.value.type.members[i].name # clientType.value.type.members[j].name
        /\ GetArgsNameOfEntry(clientType.value.type.members[i])
             # GetArgsNameOfEntry(clientType.value.type.members[j])

====
